---- MODULE Spec2Model ----
(***************************************************************************)
(* kerf-init (src/src/init/init.c): the PID 1 supervisor of a spawn        *)
(* kernel.  The module models                                              *)
(*   - the boot parameter reader and the command tokenizer as operators    *)
(*     over C strings (sequences of one-character strings),                *)
(*   - main() as a program counter stepping through the boot sequence,     *)
(*     the fork and the pause() loop,                                      *)
(*   - the two signal handlers, run atomically between two steps of main,  *)
(*   - the kernel's side: the entrypoint child, orphans reparented to      *)
(*     PID 1, zombies and the pending SIGCHLD.                             *)
(***************************************************************************)
EXTENDS Integers, Sequences, FiniteSets, TLC

(***************************************************************************)
(* Bounds of the model.                                                    *)
(***************************************************************************)
\* longest enumerated text after the kerf.entrypoint= marker
MaxTail == 4
\* the small caller buffer the reader is also applied with
SmallBuf == 3
\* orphans reparented to PID 1
NumOrphans == 1
\* the small caller buffer read_console is also applied with
SmallConsoleBuf == 8
\* the small token limit the tokenizer is also applied with
SmallArgs == 2

(***************************************************************************)
(* Program constants.                                                      *)
(***************************************************************************)
MAX_CMDLINE_LEN == 4096
MAX_ENTRYPOINT_LEN == 4096
MAX_CONSOLE_LEN == 64
MAX_ARGS == 64

ENTRYPOINT_KEY ==
    <<"k","e","r","f",".","e","n","t","r","y","p","o","i","n","t","=">>
CONSOLE_KEY == <<"c","o","n","s","o","l","e","=">>
DEV_PREFIX == <<"/","d","e","v","/">>

\* the terminating byte of a C string
NUL == "NUL"
DQ == "\""
SQ == "'"
SP == " "
TAB == "\t"
NL == "\n"

(***************************************************************************)
(* C strings.  A string is the sequence of its bytes without the NUL; a    *)
(* buffer is a sequence of bytes that holds NULs.                          *)
(***************************************************************************)
Take(s, n) == SubSeq(s, 1, IF n < Len(s) THEN n ELSE Len(s))

\* *p for a pointer p (1-based) into the string s: NUL at and past its end
At(s, p) == IF p >= 1 /\ p <= Len(s) THEN s[p] ELSE NUL

\* strstr(hay, needle): the position of the first occurrence, 0 for NULL
StrStr(hay, needle) ==
    LET hits == { i \in 1..(Len(hay) - Len(needle) + 1) :
                    SubSeq(hay, i, i + Len(needle) - 1) = needle }
    IN IF hits = {} THEN 0
       ELSE CHOOSE i \in hits : \A j \in hits : i <= j

\* strchr(s + from - 1, c): the position of the first c at or after from
StrChr(s, from, c) ==
    LET hits == { i \in from..Len(s) : s[i] = c }
    IN IF hits = {} THEN 0
       ELSE CHOOSE i \in hits : \A j \in hits : i <= j

\* the first position at or after from where the byte is in stops, or the
\* position of the terminating NUL
RECURSIVE ScanTo(_, _, _)
ScanTo(s, from, stops) ==
    IF At(s, from) = NUL \/ At(s, from) \in stops THEN from
    ELSE ScanTo(s, from + 1, stops)

\* the C string that starts at position p of the buffer buf
CStr(buf, p) == SubSeq(buf, p, ScanTo(buf, p, {}) - 1)

(***************************************************************************)
(* Boot Parameter Reader.                                                  *)
(***************************************************************************)
\* what read(fd, cmdline, sizeof(cmdline) - 1) leaves in cmdline[]
ReadCmdline(raw) == Take(raw, MAX_CMDLINE_LEN - 1)

\* ReadEntrypoint with the length test off by one: a value of bufsize bytes
\* is accepted
ReadEntrypoint_OffByOne(io, raw, buf, bufsize) ==
    LET cmdline == ReadCmdline(raw)
        found   == StrStr(cmdline, ENTRYPOINT_KEY)
        start0  == found + Len(ENTRYPOINT_KEY)
        quoted  == At(cmdline, start0) = DQ
        start   == IF quoted THEN start0 + 1 ELSE start0
        end     == IF quoted THEN StrChr(cmdline, start, DQ)
                   ELSE ScanTo(cmdline, start, {SP, NL})
        len     == end - start
    IN  IF io = "open_fails" THEN [rc |-> -1, log |-> "open", buf |-> buf]
        ELSE IF io = "read_fails" THEN [rc |-> -1, log |-> "read", buf |-> buf]
        ELSE IF found = 0 THEN [rc |-> -1, log |-> "not found", buf |-> buf]
        ELSE IF quoted /\ end = 0
             THEN [rc |-> -1, log |-> "unterminated quote", buf |-> buf]
        ELSE IF len = 0 THEN [rc |-> -1, log |-> "empty", buf |-> buf]
        ELSE IF len > bufsize THEN [rc |-> -1, log |-> "too long", buf |-> buf]
        ELSE [rc |-> 0, log |-> "none",
              buf |-> SubSeq(cmdline, start, end - 1) \o <<NUL>>]

\* read_entrypoint(buf, bufsize) with /proc/cmdline holding raw; io says
\* whether open() and read() succeed.  rc is the return value, log the
\* diagnostic, buf the caller's buffer afterwards.
ReadEntrypoint(io, raw, buf, bufsize) ==
    LET cmdline == ReadCmdline(raw)
        found   == StrStr(cmdline, ENTRYPOINT_KEY)
        start0  == found + Len(ENTRYPOINT_KEY)
        quoted  == At(cmdline, start0) = DQ
        start   == IF quoted THEN start0 + 1 ELSE start0
        end     == IF quoted THEN StrChr(cmdline, start, DQ)
                   ELSE ScanTo(cmdline, start, {SP, NL})
        len     == end - start
    IN  IF io = "open_fails" THEN [rc |-> -1, log |-> "open", buf |-> buf]
        ELSE IF io = "read_fails" THEN [rc |-> -1, log |-> "read", buf |-> buf]
        ELSE IF found = 0 THEN [rc |-> -1, log |-> "not found", buf |-> buf]
        ELSE IF quoted /\ end = 0
             THEN [rc |-> -1, log |-> "unterminated quote", buf |-> buf]
        ELSE IF len = 0 THEN [rc |-> -1, log |-> "empty", buf |-> buf]
        ELSE IF len >= bufsize THEN [rc |-> -1, log |-> "too long", buf |-> buf]
        ELSE [rc |-> 0, log |-> "none",
              buf |-> SubSeq(cmdline, start, end - 1) \o <<NUL>>]

\* ReadConsole without the test that "/dev/" and the value fit the buffer
ReadConsole_NoPrefixRoom(io, raw, buf, bufsize) ==
    LET cmdline == ReadCmdline(raw)
        found   == StrStr(cmdline, CONSOLE_KEY)
        start   == found + Len(CONSOLE_KEY)
        end     == ScanTo(cmdline, start, {SP, ",", NL})
        len     == end - start
        path    == DEV_PREFIX \o SubSeq(cmdline, start, end - 1)
    IN  IF io # "ok" THEN [rc |-> -1, buf |-> buf]
        ELSE IF found = 0 THEN [rc |-> -1, buf |-> buf]
        ELSE IF len = 0 \/ len >= bufsize THEN [rc |-> -1, buf |-> buf]
        ELSE [rc |-> 0, buf |-> Take(path, bufsize - 1) \o <<NUL>>]

\* read_console(buf, bufsize); snprintf writes at most bufsize - 1 bytes of
\* the path and a NUL
ReadConsole(io, raw, buf, bufsize) ==
    LET cmdline == ReadCmdline(raw)
        found   == StrStr(cmdline, CONSOLE_KEY)
        start   == found + Len(CONSOLE_KEY)
        end     == ScanTo(cmdline, start, {SP, ",", NL})
        len     == end - start
        path    == DEV_PREFIX \o SubSeq(cmdline, start, end - 1)
    IN  IF io # "ok" THEN [rc |-> -1, buf |-> buf]
        ELSE IF found = 0 THEN [rc |-> -1, buf |-> buf]
        ELSE IF len = 0 \/ len >= bufsize THEN [rc |-> -1, buf |-> buf]
        ELSE IF len + 5 >= bufsize THEN [rc |-> -1, buf |-> buf]
        ELSE [rc |-> 0, buf |-> Take(path, bufsize - 1) \o <<NUL>>]

(***************************************************************************)
(* Command Tokenizer: parse_args edits the buffer in place; argv holds     *)
(* positions in it, 0 for the NULL sentinel.                               *)
(***************************************************************************)
\* memmove(p, p + 1, strlen(p)): the bytes after p, the NUL included, move
\* one place down
Memmove(buf, p) ==
    LET nul == ScanTo(buf, p, {})
    IN [i \in 1..Len(buf) |-> IF i >= p /\ i < nul THEN buf[i + 1] ELSE buf[i]]

\* "Skip whitespace": while (*p == ' ' || *p == '\t') p++
RECURSIVE SkipBlank(_, _)
SkipBlank(buf, p) ==
    IF At(buf, p) = SP \/ At(buf, p) = TAB THEN SkipBlank(buf, p + 1) ELSE p

\* ParseArgsInner with the closing quote taken as the end of the token
RECURSIVE ParseArgsInner_QuoteEndsToken(_)
ParseArgsInner_QuoteEndsToken(st) ==
    LET c == At(st.buf, st.p)
    IN  IF c = NUL THEN st
        ELSE IF st.in_quote = 0 /\ (c = DQ \/ c = SQ)
             THEN ParseArgsInner_QuoteEndsToken(
                    [st EXCEPT !.in_quote = 1, !.quote_char = c,
                               !.buf = Memmove(st.buf, st.p)])
        ELSE IF st.in_quote = 0 /\ (c = SP \/ c = TAB)
             THEN [st EXCEPT !.buf[st.p] = NUL, !.p = st.p + 1]
        ELSE IF st.in_quote = 1 /\ c = st.quote_char
             THEN [st EXCEPT !.in_quote = 0, !.buf[st.p] = NUL,
                             !.p = st.p + 1]
        ELSE ParseArgsInner_QuoteEndsToken([st EXCEPT !.p = st.p + 1])

\* the inner loop, "Find end of argument"
RECURSIVE ParseArgsInner(_)
ParseArgsInner(st) ==
    LET c == At(st.buf, st.p)
    IN  IF c = NUL THEN st
        ELSE IF st.in_quote = 0 /\ (c = DQ \/ c = SQ)
             THEN ParseArgsInner([st EXCEPT !.in_quote = 1, !.quote_char = c,
                                            !.buf = Memmove(st.buf, st.p)])
        ELSE IF st.in_quote = 0 /\ (c = SP \/ c = TAB)
             THEN [st EXCEPT !.buf[st.p] = NUL, !.p = st.p + 1]
        ELSE IF st.in_quote = 1 /\ c = st.quote_char
             THEN ParseArgsInner([st EXCEPT !.in_quote = 0,
                                            !.buf = Memmove(st.buf, st.p)])
        ELSE ParseArgsInner([st EXCEPT !.p = st.p + 1])

\* ParseArgsOuter with the loop running while argc < max_args: no slot is
\* kept for the sentinel
RECURSIVE ParseArgsOuter_NoSentinelSlot(_, _)
ParseArgsOuter_NoSentinelSlot(st, max_args) ==
    IF At(st.buf, st.p) # NUL /\ st.argc < max_args
    THEN LET q == SkipBlank(st.buf, st.p)
         IN  IF At(st.buf, q) = NUL THEN [st EXCEPT !.p = q]
             ELSE ParseArgsOuter_NoSentinelSlot(
                    ParseArgsInner([st EXCEPT !.p = q, !.argc = st.argc + 1,
                                              !.argv = Append(st.argv, q)]),
                    max_args)
    ELSE st

\* the outer loop
RECURSIVE ParseArgsOuter(_, _)
ParseArgsOuter(st, max_args) ==
    IF At(st.buf, st.p) # NUL /\ st.argc < max_args - 1
    THEN LET q == SkipBlank(st.buf, st.p)
         IN  IF At(st.buf, q) = NUL THEN [st EXCEPT !.p = q]
             ELSE ParseArgsOuter(
                    ParseArgsInner([st EXCEPT !.p = q, !.argc = st.argc + 1,
                                              !.argv = Append(st.argv, q)]),
                    max_args)
    ELSE st

\* parse_args(cmdline, argv, max_args): rc is the count returned
ParseArgs(buf, max_args) ==
    LET st == ParseArgsOuter([buf |-> buf, p |-> 1, argc |-> 0, argv |-> <<>>,
                              in_quote |-> 0, quote_char |-> NUL], max_args)
    IN [rc |-> st.argc, buf |-> st.buf, argv |-> Append(st.argv, 0)]

\* the strings argv[0..argc-1] point at
ArgStrings(buf, argv) == [i \in 1..(Len(argv) - 1) |-> CStr(buf, argv[i])]

(***************************************************************************)
(* Filesystem Bootstrapper.  fs is the kernel's view: the mounted targets  *)
(* and the directories that exist.  inj[i] is the errno step i is made to  *)
(* fail with, "ok" for none: then the call answers from fs.                *)
(***************************************************************************)
MountSteps ==
    << [op |-> "mount", path |-> "/proc"],
       [op |-> "mount", path |-> "/sys"],
       [op |-> "mount", path |-> "/dev"],
       [op |-> "mkdir", path |-> "/dev/pts"],
       [op |-> "mount", path |-> "/dev/pts"] >>

\* mount(2): the errno ("ok" for none) and the kernel's view afterwards
SysMount(fs, target, inj) ==
    IF inj # "ok" THEN [errno |-> inj, fs |-> fs]
    ELSE IF target \in fs.mounted THEN [errno |-> "EBUSY", fs |-> fs]
    ELSE [errno |-> "ok", fs |-> [fs EXCEPT !.mounted = @ \cup {target}]]

\* mkdir(2)
SysMkdir(fs, path, inj) ==
    IF inj # "ok" THEN [errno |-> inj, fs |-> fs]
    ELSE IF path \in fs.dirs THEN [errno |-> "EEXIST", fs |-> fs]
    ELSE [errno |-> "ok", fs |-> [fs EXCEPT !.dirs = @ \cup {path}]]

\* DoMount with "already mounted" treated as a failure like any other
DoMount_EbusyFails(fs, target, inj) ==
    LET r == SysMount(fs, target, inj)
    IN [rc |-> IF r.errno # "ok" THEN -1 ELSE 0,
        errno |-> r.errno, fs |-> r.fs]

\* do_mount: -1 unless the mount succeeded or failed with EBUSY
DoMount(fs, target, inj) ==
    LET r == SysMount(fs, target, inj)
    IN [rc |-> IF r.errno # "ok" /\ r.errno # "EBUSY" THEN -1 ELSE 0,
        errno |-> r.errno, fs |-> r.fs]

\* do_mkdir: -1 unless the mkdir succeeded or failed with EEXIST
DoMkdir(fs, path, inj) ==
    LET r == SysMkdir(fs, path, inj)
    IN [rc |-> IF r.errno # "ok" /\ r.errno # "EEXIST" THEN -1 ELSE 0,
        errno |-> r.errno, fs |-> r.fs]

\* MountFrom with a failed step not ending the sequence: the later steps
\* are attempted all the same and the failure is returned at the end
RECURSIVE MountFrom_KeepsGoing(_, _, _, _)
MountFrom_KeepsGoing(i, fs, inj, tried) ==
    IF i > Len(MountSteps)
    THEN [rc |-> IF \E k \in 1..Len(tried) : tried[k].rc < 0 THEN -1 ELSE 0,
          fs |-> fs, tried |-> tried]
    ELSE LET step == MountSteps[i]
             r == IF step.op = "mount" THEN DoMount(fs, step.path, inj[i])
                  ELSE DoMkdir(fs, step.path, inj[i])
         IN MountFrom_KeepsGoing(i + 1, r.fs, inj,
                Append(tried, [path |-> step.path, rc |-> r.rc,
                               errno |-> r.errno]))

\* mount_filesystems from step i on; tried lists the steps attempted, each
\* with the errno of its system call and what do_mount / do_mkdir returned
RECURSIVE MountFrom(_, _, _, _)
MountFrom(i, fs, inj, tried) ==
    IF i > Len(MountSteps) THEN [rc |-> 0, fs |-> fs, tried |-> tried]
    ELSE LET step == MountSteps[i]
             r == IF step.op = "mount" THEN DoMount(fs, step.path, inj[i])
                  ELSE DoMkdir(fs, step.path, inj[i])
             t == Append(tried, [path |-> step.path, rc |-> r.rc,
                                 errno |-> r.errno])
         IN IF r.rc < 0 THEN [rc |-> -1, fs |-> r.fs, tried |-> t]
            ELSE MountFrom(i + 1, r.fs, inj, t)

MountFilesystems(fs, inj) == MountFrom(1, fs, inj, <<>>)

\* the errnos a step is made to fail with: one that no step tolerates and
\* the one only the other kind of step tolerates
FailingErrnos(step) ==
    {"EPERM", IF step.op = "mount" THEN "EEXIST" ELSE "EBUSY"}

\* the ways the system calls of the five steps may be made to fail
Injections ==
    { inj \in [1..Len(MountSteps) -> {"ok", "EPERM", "EEXIST", "EBUSY"}] :
        \A i \in 1..Len(MountSteps) :
            inj[i] = "ok" \/ inj[i] \in FailingErrnos(MountSteps[i]) }

(***************************************************************************)
(* Wait statuses, as the kernel encodes them and <sys/wait.h> decodes them.*)
(***************************************************************************)
\* the status word of a process that called _exit(code)
StatusOfExit(code) == (code % 256) * 256
\* the status word of a process killed by signal number sig; bit 7 says
\* that it dumped core
StatusOfSignal(sig, core) == sig + (IF core THEN 128 ELSE 0)
WIFEXITED(status) == status % 128 = 0
WEXITSTATUS(status) == (status \div 256) % 256
WIFSIGNALED(status) == status % 128 # 0 /\ status % 128 # 127
WTERMSIG(status) == status % 128

\* signal numbers of <signal.h>
SigNum(sig) ==
    CASE sig = "SIGHUP" -> 1 [] sig = "SIGINT" -> 2 [] sig = "SIGKILL" -> 9
      [] sig = "SIGSEGV" -> 11 [] sig = "SIGTERM" -> 15
      [] sig = "SIGCHLD" -> 17

\* the signals setup_signals hands to forward_signal
ForwardedSignals == {"SIGTERM", "SIGINT", "SIGHUP"}

(***************************************************************************)
(* State.                                                                  *)
(***************************************************************************)
VARIABLES
    pc,                \* where main() of the supervisor is
    exit_status,       \* the status main returned with, -1 while it runs
    raw,               \* the content of /proc/cmdline
    bufsize,           \* the bufsize read_entrypoint was called with
    entrypoint,        \* char entrypoint[]: the bytes written so far
    ep_log,            \* the diagnostic read_entrypoint logged
    ep_argc,           \* int ep_argc
    ep_argv,           \* char *ep_argv[]: positions in entrypoint, 0 = NULL
    max_args,          \* the max_args parse_args was called with
    console_rc,        \* what read_console returned, 1 before the call
    console_device,    \* static char console_device[]
    fs,                \* the kernel's mounts and directories
    tried,             \* the mount steps attempted, in order, with their rc
    handlers,          \* whether setup_signals has installed the handlers
    fork_ret,          \* fork()'s return value in the parent, not yet stored
    child_pid,         \* static volatile pid_t child_pid (the parent's copy)
    child_exited,      \* static volatile int child_exited
    child_exit_status, \* static volatile int child_exit_status
    childPc,           \* where the forked child is, or its process state
    c_child_pid,       \* the child's copy of child_pid
    childOutcome,      \* how the child terminated, NoOutcome before
    childTty,          \* the child's session, terminal and standard streams
    orphans,           \* processes reparented to PID 1
    sigchld_pending,   \* SIGCHLD is pending for the supervisor
    obs,               \* the signal handled in the last step and its kill()
    log_count,         \* how often "child exited with status" was logged
    logged_status      \* the status in the last such line, -1 for none

vars ==
    << pc, exit_status, raw, bufsize, max_args, entrypoint, ep_log, ep_argc,
       ep_argv, console_rc, console_device, fs, tried, handlers, fork_ret, child_pid,
       child_exited, child_exit_status, childPc, c_child_pid, childOutcome,
       childTty, orphans, sigchld_pending, obs, log_count, logged_status >>

\* the pid fork() gives the entrypoint child; orphan i has pid ChildOsPid + i
ChildOsPid == 2
OrphanPid(i) == ChildOsPid + i
Orphans == 1..NumOrphans

\* char entrypoint[] before anything is written to it
Unwritten == <<"?">>

\* reaped: the pids waitpid returned to the handler
NoObs == [sig |-> "none", by |-> "none", kill |-> <<>>, reaped |-> {}]

\* how a process ended: exit(n), _exit(127) after a failed execv, or killed
\* by signal number n, with or without a core dump
NoOutcome == [how |-> "none", n |-> 0, core |-> FALSE]
Exited(code) == [how |-> "exit", n |-> code, core |-> FALSE]
ExecFailed == [how |-> "execfail", n |-> 127, core |-> FALSE]
Killed(sig) == [how |-> "signal", n |-> SigNum(sig), core |-> sig = "SIGSEGV"]

\* the wait status the kernel reports for an outcome
WaitStatus(o) ==
    IF o.how = "signal" THEN StatusOfSignal(o.n, o.core) ELSE StatusOfExit(o.n)

\* the child's terminal state as fork() leaves it
InheritedTty ==
    [called |-> FALSE, opened |-> FALSE, session |-> "inherited",
     ctty |-> "none",
     termios |-> "unchanged", stdio |-> <<"inherited", "inherited", "inherited">>]

\* what the entrypoint may pass to exit(), and the signals that may kill it
ExitCodes == {0, 3, 255}
DeathSignals == {"SIGKILL", "SIGTERM", "SIGSEGV"}

(***************************************************************************)
(* Boot command lines.                                                     *)
(***************************************************************************)
RECURSIVE Strs(_, _)
Strs(alphabet, n) ==
    IF n = 0 THEN {<<>>}
    ELSE LET shorter == Strs(alphabet, n - 1)
         IN shorter \cup { Append(t, c) : t \in shorter, c \in alphabet }

TailAlphabet == {"a", SP, DQ, SQ, TAB, NL}

\* kerf.entrypoint="a b c", kerf.entrypoint=/bin/sh and
\* kerf.entrypoint="/bin/sh -c 'echo hi'"
Example1 == ENTRYPOINT_KEY \o <<DQ, "a", SP, "b", SP, "c", DQ>>
Example2 == ENTRYPOINT_KEY \o <<"/", "b", "i", "n", "/", "s", "h">>
Example3 ==
    ENTRYPOINT_KEY \o <<DQ, "/", "b", "i", "n", "/", "s", "h", SP, "-", "c",
                        SP, SQ, "e", "c", "h", "o", SP, "h", "i", SQ, DQ>>

ExampleCmdlines == {Example1, Example2, Example3}

\* the command lines the reader and the tokenizer are applied to
ParseCmdlines ==
    { ENTRYPOINT_KEY \o tail : tail \in Strs(TailAlphabet, MaxTail) }
    \cup { pre \o tail :
             pre \in {<<>>, <<"x">>, SubSeq(ENTRYPOINT_KEY, 1, 15),
                      SubSeq(ENTRYPOINT_KEY, 2, 16)},
             tail \in Strs(TailAlphabet, 1) }
    \cup { <<"x", SP>> \o ENTRYPOINT_KEY \o tail \o ENTRYPOINT_KEY \o <<"a">> :
             tail \in Strs(TailAlphabet, 2) }
    \cup ExampleCmdlines

\* the command lines the whole boot is run on
BootCmdlines ==
    { ENTRYPOINT_KEY \o <<"a">>,
      CONSOLE_KEY \o <<"t", ",", "1", SP>> \o ENTRYPOINT_KEY
          \o <<DQ, "a", SP, SQ, "b", SP, "c", SQ, DQ>>,
      CONSOLE_KEY \o <<SP>> \o ENTRYPOINT_KEY \o <<SQ, SQ>>,
      <<"x">>,
      ENTRYPOINT_KEY \o <<DQ, "a">>,
      ENTRYPOINT_KEY,
      ENTRYPOINT_KEY \o <<DQ, SP, DQ>> }

InitialFs ==
    { [mounted |-> {}, dirs |-> {}],
      [mounted |-> {"/dev"}, dirs |-> {}],
      [mounted |-> {"/dev"}, dirs |-> {"/dev/pts"}] }

InitCommon ==
    /\ exit_status = -1
    /\ entrypoint = Unwritten
    /\ ep_log = "none"
    /\ ep_argc = 0
    /\ ep_argv = <<>>
    /\ console_rc = 1
    /\ console_device = <<NUL>>
    /\ tried = <<>>
    /\ handlers = FALSE
    /\ fork_ret = 0
    /\ child_pid = -1
    /\ child_exited = 0
    /\ child_exit_status = 0
    /\ childPc = "none"
    /\ c_child_pid = -1
    /\ childOutcome = NoOutcome
    /\ childTty = InheritedTty
    /\ orphans = [i \in Orphans |-> "absent"]
    /\ sigchld_pending = FALSE
    /\ obs = NoObs
    /\ log_count = 0
    /\ logged_status = -1

Init ==
    /\ pc = "mount"
    /\ raw \in BootCmdlines
    /\ fs \in InitialFs
    /\ bufsize = MAX_ENTRYPOINT_LEN
    /\ max_args = MAX_ARGS
    /\ InitCommon

(***************************************************************************)
(* main(), before the fork.                                                *)
(***************************************************************************)
\* return 1 from main
Return1 ==
    /\ pc' = "exited"
    /\ exit_status' = 1

\* if (mount_filesystems() < 0) return 1;
MainMount ==
    /\ pc = "mount"
    /\ \E inj \in Injections :
         LET r == MountFilesystems(fs, inj)
         IN /\ fs' = r.fs
            /\ tried' = r.tried
            /\ IF r.rc < 0 THEN Return1
               ELSE pc' = "read_entrypoint" /\ UNCHANGED exit_status
    /\ obs' = NoObs
    /\ UNCHANGED << raw, bufsize, max_args, entrypoint, ep_log, ep_argc, ep_argv,
                    console_rc, console_device, handlers, fork_ret, child_pid,
                    child_exited, child_exit_status, childPc, c_child_pid,
                    childOutcome, childTty, orphans, sigchld_pending,
                    log_count, logged_status >>

\* if (read_entrypoint(entrypoint, sizeof(entrypoint)) < 0) return 1;
MainReadEntrypoint ==
    /\ pc = "read_entrypoint"
    /\ \E io \in {"ok", "open_fails", "read_fails"} :
         LET r == ReadEntrypoint(io, raw, entrypoint, MAX_ENTRYPOINT_LEN)
         IN /\ entrypoint' = r.buf
            /\ ep_log' = r.log
            /\ IF r.rc < 0 THEN Return1
               ELSE pc' = "read_console" /\ UNCHANGED exit_status
    /\ obs' = NoObs
    /\ UNCHANGED << raw, bufsize, max_args, ep_argc, ep_argv, console_rc,
                    console_device, fs, tried, handlers, fork_ret, child_pid,
                    child_exited, child_exit_status, childPc, c_child_pid,
                    childOutcome, childTty, orphans, sigchld_pending,
                    log_count, logged_status >>

\* if (read_console(...) == 0) log it; else console_device[0] = '\0';
MainReadConsole ==
    /\ pc = "read_console"
    /\ \E io \in {"ok", "open_fails", "read_fails"} :
         LET r == ReadConsole(io, raw, console_device, MAX_CONSOLE_LEN)
         IN /\ console_rc' = r.rc
            /\ console_device' = IF r.rc = 0 THEN r.buf
                                 ELSE [r.buf EXCEPT ![1] = NUL]
    /\ pc' = "parse_args"
    /\ obs' = NoObs
    /\ UNCHANGED << exit_status, raw, bufsize, max_args, entrypoint, ep_log, ep_argc,
                    ep_argv, fs, tried, handlers, fork_ret, child_pid,
                    child_exited, child_exit_status, childPc, c_child_pid,
                    childOutcome, childTty, orphans, sigchld_pending,
                    log_count, logged_status >>

\* MainParseArgs without the test for zero tokens
MainParseArgs_NoZeroCheck ==
    /\ pc = "parse_args"
    /\ LET r == ParseArgs(entrypoint, MAX_ARGS)
       IN /\ entrypoint' = r.buf
          /\ ep_argc' = r.rc
          /\ ep_argv' = r.argv
    /\ pc' = "setup_signals"
    /\ obs' = NoObs
    /\ UNCHANGED << exit_status, raw, bufsize, max_args, ep_log, console_rc,
                    console_device, fs, tried, handlers, fork_ret, child_pid,
                    child_exited, child_exit_status, childPc, c_child_pid,
                    childOutcome, childTty, orphans, sigchld_pending,
                    log_count, logged_status >>

\* ep_argc = parse_args(entrypoint, ep_argv, MAX_ARGS); if (!ep_argc) return 1;
MainParseArgs ==
    /\ pc = "parse_args"
    /\ LET r == ParseArgs(entrypoint, MAX_ARGS)
       IN /\ entrypoint' = r.buf
          /\ ep_argc' = r.rc
          /\ ep_argv' = r.argv
          /\ IF r.rc = 0 THEN Return1
             ELSE pc' = "setup_signals" /\ UNCHANGED exit_status
    /\ obs' = NoObs
    /\ UNCHANGED << raw, bufsize, max_args, ep_log, console_rc, console_device, fs,
                    tried, handlers, fork_ret, child_pid, child_exited,
                    child_exit_status, childPc, c_child_pid, childOutcome,
                    childTty, orphans, sigchld_pending, log_count,
                    logged_status >>

\* setup_signals();
MainSetupSignals ==
    /\ pc = "setup_signals"
    /\ handlers' = TRUE
    /\ pc' = "fork"
    /\ obs' = NoObs
    /\ UNCHANGED << exit_status, raw, bufsize, max_args, entrypoint, ep_log, ep_argc,
                    ep_argv, console_rc, console_device, fs, tried, fork_ret,
                    child_pid, child_exited, child_exit_status, childPc,
                    c_child_pid, childOutcome, childTty, orphans,
                    sigchld_pending, log_count, logged_status >>

(***************************************************************************)
(* The fork.  fork() creates the child and returns; storing its return     *)
(* value in child_pid is a later step of each of the two processes.        *)
(***************************************************************************)
\* fork(): the child exists, a copy of the parent, or fork fails with -1
MainFork ==
    /\ pc = "fork"
    /\ \/ /\ fork_ret' = ChildOsPid
          /\ childPc' = "fork_ret"
          /\ c_child_pid' = child_pid
       \/ /\ fork_ret' = -1
          /\ UNCHANGED << childPc, c_child_pid >>
    /\ pc' = "fork_ret"
    /\ obs' = NoObs
    /\ UNCHANGED << exit_status, raw, bufsize, max_args, entrypoint, ep_log, ep_argc,
                    ep_argv, console_rc, console_device, fs, tried, handlers,
                    child_pid, child_exited, child_exit_status, childOutcome,
                    childTty, orphans, sigchld_pending, log_count,
                    logged_status >>

\* child_pid = <fork's value>; if (child_pid < 0) return 1;  (parent side)
MainStoreChildPid ==
    /\ pc = "fork_ret"
    /\ child_pid' = fork_ret
    /\ IF fork_ret < 0 THEN Return1
       ELSE pc' = "call_pause" /\ UNCHANGED exit_status
    /\ obs' = NoObs
    /\ UNCHANGED << raw, bufsize, max_args, entrypoint, ep_log, ep_argc, ep_argv,
                    console_rc, console_device, fs, tried, handlers, fork_ret,
                    child_exited, child_exit_status, childPc, c_child_pid,
                    childOutcome, childTty, orphans, sigchld_pending,
                    log_count, logged_status >>

(***************************************************************************)
(* The parent's loop: for (;;) { pause(); if (child_exited) {...} }        *)
(***************************************************************************)
\* the parent enters pause() and sleeps until a handler has run
MainPause ==
    /\ pc = "call_pause"
    /\ pc' = "paused"
    /\ obs' = NoObs
    /\ UNCHANGED << exit_status, raw, bufsize, max_args, entrypoint, ep_log, ep_argc,
                    ep_argv, console_rc, console_device, fs, tried, handlers,
                    fork_ret, child_pid, child_exited, child_exit_status,
                    childPc, c_child_pid, childOutcome, childTty, orphans,
                    sigchld_pending, log_count, logged_status >>

\* if (child_exited)
MainCheck ==
    /\ pc = "check"
    /\ pc' = IF child_exited # 0 THEN "log" ELSE "call_pause"
    /\ obs' = NoObs
    /\ UNCHANGED << exit_status, raw, bufsize, max_args, entrypoint, ep_log, ep_argc,
                    ep_argv, console_rc, console_device, fs, tried, handlers,
                    fork_ret, child_pid, child_exited, child_exit_status,
                    childPc, c_child_pid, childOutcome, childTty, orphans,
                    sigchld_pending, log_count, logged_status >>

\* MainLog with the recorded status cleared once it is logged
MainLog_ClearsStatus ==
    /\ pc = "log"
    /\ log_count' = log_count + 1
    /\ logged_status' = child_exit_status
    /\ child_exit_status' = 0
    /\ pc' = "reset"
    /\ obs' = NoObs
    /\ UNCHANGED << exit_status, raw, bufsize, max_args, entrypoint, ep_log, ep_argc,
                    ep_argv, console_rc, console_device, fs, tried, handlers,
                    fork_ret, child_pid, child_exited, childPc, c_child_pid,
                    childOutcome, childTty, orphans, sigchld_pending >>

\* snprintf(msg, ..., "child exited with status %d", child_exit_status);
\* log_msg(msg);
MainLog ==
    /\ pc = "log"
    /\ log_count' = log_count + 1
    /\ logged_status' = child_exit_status
    /\ pc' = "reset"
    /\ obs' = NoObs
    /\ UNCHANGED << exit_status, raw, bufsize, max_args, entrypoint, ep_log, ep_argc,
                    ep_argv, console_rc, console_device, fs, tried, handlers,
                    fork_ret, child_pid, child_exited, child_exit_status,
                    childPc, c_child_pid, childOutcome, childTty, orphans,
                    sigchld_pending >>

\* MainReset with the loop left once the child's exit is consumed: main
\* returns the child's status
MainReset_ReturnsStatus ==
    /\ pc = "reset"
    /\ child_exited' = 0
    /\ pc' = "exited"
    /\ exit_status' = child_exit_status
    /\ obs' = NoObs
    /\ UNCHANGED << raw, bufsize, max_args, entrypoint, ep_log, ep_argc,
                    ep_argv, console_rc, console_device, fs, tried, handlers,
                    fork_ret, child_pid, child_exit_status, childPc,
                    c_child_pid, childOutcome, childTty, orphans,
                    sigchld_pending, log_count, logged_status >>

\* child_exited = 0; and back to the top of the loop
MainReset ==
    /\ pc = "reset"
    /\ child_exited' = 0
    /\ pc' = "call_pause"
    /\ obs' = NoObs
    /\ UNCHANGED << exit_status, raw, bufsize, max_args, entrypoint, ep_log, ep_argc,
                    ep_argv, console_rc, console_device, fs, tried, handlers,
                    fork_ret, child_pid, child_exit_status, childPc,
                    c_child_pid, childOutcome, childTty, orphans,
                    sigchld_pending, log_count, logged_status >>

(***************************************************************************)
(* The forked child, up to execv.                                          *)
(***************************************************************************)
\* child_pid = 0 in the child's copy; if (child_pid == 0) { ...
ChildStoreChildPid ==
    /\ childPc = "fork_ret"
    /\ c_child_pid' = 0
    /\ childPc' = "main"
    /\ obs' = NoObs
    /\ UNCHANGED << pc, exit_status, raw, bufsize, max_args, entrypoint, ep_log,
                    ep_argc, ep_argv, console_rc, console_device, fs, tried,
                    handlers, fork_ret, child_pid, child_exited,
                    child_exit_status, childOutcome, childTty, orphans,
                    sigchld_pending, log_count, logged_status >>

\* the outcomes of the system calls of setup_console
ConsoleOutcomes ==
    [setsid : BOOLEAN, open : BOOLEAN, ioctl : BOOLEAN, tcgetattr : BOOLEAN,
     tcsetattr : BOOLEAN, dup2 : [1..3 -> BOOLEAN]]

\* setup_console(tty) with the system calls answering as o says
SetupConsole(tty, o) ==
    LET sess == IF o.setsid THEN "new" ELSE tty.session
    IN  IF ~o.open
        THEN [tty EXCEPT !.called = TRUE, !.session = sess]
        ELSE [called  |-> TRUE,
              opened  |-> TRUE,
              session |-> sess,
              ctty    |-> IF o.ioctl THEN "console" ELSE tty.ctty,
              termios |-> IF o.tcgetattr /\ o.tcsetattr THEN "baseline"
                          ELSE tty.termios,
              stdio   |-> [i \in 1..3 |-> IF o.dup2[i] THEN "console"
                                          ELSE tty.stdio[i]]]

\* ChildConsole with a console that cannot be opened treated as fatal:
\* the child exits with status 1 instead of going on to execv
ChildConsole_ExitsOnOpenFailure ==
    /\ childPc = "main"
    /\ IF console_device[1] # NUL
       THEN \E o \in ConsoleOutcomes :
              /\ childTty' = SetupConsole(childTty, o)
              /\ IF o.open
                 THEN /\ childPc' = "exec"
                      /\ UNCHANGED << childOutcome, sigchld_pending >>
                 ELSE /\ childPc' = "zombie"
                      /\ childOutcome' = Exited(1)
                      /\ sigchld_pending' = TRUE
       ELSE /\ childPc' = "exec"
            /\ UNCHANGED << childTty, childOutcome, sigchld_pending >>
    /\ obs' = NoObs
    /\ UNCHANGED << pc, exit_status, raw, bufsize, max_args, entrypoint,
                    ep_log, ep_argc, ep_argv, console_rc, console_device, fs,
                    tried, handlers, fork_ret, child_pid, child_exited,
                    child_exit_status, c_child_pid, orphans, log_count,
                    logged_status >>

\* if (console_device[0] != '\0') setup_console(console_device);
ChildConsole ==
    /\ childPc = "main"
    /\ IF console_device[1] # NUL
       THEN \E o \in ConsoleOutcomes : childTty' = SetupConsole(childTty, o)
       ELSE UNCHANGED childTty
    /\ childPc' = "exec"
    /\ obs' = NoObs
    /\ UNCHANGED << pc, exit_status, raw, bufsize, max_args, entrypoint, ep_log,
                    ep_argc, ep_argv, console_rc, console_device, fs, tried,
                    handlers, fork_ret, child_pid, child_exited,
                    child_exit_status, c_child_pid, childOutcome, orphans,
                    sigchld_pending, log_count, logged_status >>

\* the child terminates with outcome o: it is a zombie and its parent is
\* sent SIGCHLD
ChildTerminates(o) ==
    /\ childPc' = "zombie"
    /\ childOutcome' = o
    /\ sigchld_pending' = TRUE

\* execv(ep_argv[0], ep_argv); log_error("execv"); _exit(127);
\* execv of the empty path always fails
ChildExec ==
    /\ childPc = "exec"
    /\ \/ /\ CStr(entrypoint, ep_argv[1]) # <<>>
          /\ childPc' = "running"
          /\ UNCHANGED << childOutcome, sigchld_pending >>
       \/ ChildTerminates(ExecFailed)
    /\ obs' = NoObs
    /\ UNCHANGED << pc, exit_status, raw, bufsize, max_args, entrypoint, ep_log,
                    ep_argc, ep_argv, console_rc, console_device, fs, tried,
                    handlers, fork_ret, child_pid, child_exited,
                    child_exit_status, c_child_pid, childTty, orphans,
                    log_count, logged_status >>

(***************************************************************************)
(* The entrypoint, once it runs, and what ends the child from outside.     *)
(***************************************************************************)
\* the entrypoint calls exit(code)
ChildExit ==
    /\ childPc = "running"
    /\ \E code \in ExitCodes : ChildTerminates(Exited(code))
    /\ obs' = NoObs
    /\ UNCHANGED << pc, exit_status, raw, bufsize, max_args, entrypoint, ep_log,
                    ep_argc, ep_argv, console_rc, console_device, fs, tried,
                    handlers, fork_ret, child_pid, child_exited,
                    child_exit_status, c_child_pid, childTty, orphans,
                    log_count, logged_status >>

\* the child is killed by a signal: any of DeathSignals once the entrypoint
\* runs with default dispositions, only SIGKILL while the inherited handlers
\* are still installed
ChildKilled ==
    /\ childPc \in {"fork_ret", "main", "exec", "running"}
    /\ \E sig \in DeathSignals :
         /\ childPc # "running" => sig = "SIGKILL"
         /\ ChildTerminates(Killed(sig))
    /\ obs' = NoObs
    /\ UNCHANGED << pc, exit_status, raw, bufsize, max_args, entrypoint, ep_log,
                    ep_argc, ep_argv, console_rc, console_device, fs, tried,
                    handlers, fork_ret, child_pid, child_exited,
                    child_exit_status, c_child_pid, childTty, orphans,
                    log_count, logged_status >>

(***************************************************************************)
(* Orphans: processes reparented to PID 1.                                 *)
(***************************************************************************)
OrphanAppears ==
    /\ pc # "exited"
    /\ \E i \in Orphans :
         /\ orphans[i] = "absent"
         /\ orphans' = [orphans EXCEPT ![i] = "alive"]
    /\ obs' = NoObs
    /\ UNCHANGED << pc, exit_status, raw, bufsize, max_args, entrypoint, ep_log,
                    ep_argc, ep_argv, console_rc, console_device, fs, tried,
                    handlers, fork_ret, child_pid, child_exited,
                    child_exit_status, childPc, c_child_pid, childOutcome,
                    childTty, sigchld_pending, log_count, logged_status >>

\* SIGCHLD is discarded while its disposition is the default one
OrphanDies ==
    /\ pc # "exited"
    /\ \E i \in Orphans :
         /\ orphans[i] = "alive"
         /\ orphans' = [orphans EXCEPT ![i] = "zombie"]
    /\ sigchld_pending' = (handlers \/ sigchld_pending)
    /\ obs' = NoObs
    /\ UNCHANGED << pc, exit_status, raw, bufsize, max_args, entrypoint, ep_log,
                    ep_argc, ep_argv, console_rc, console_device, fs, tried,
                    handlers, fork_ret, child_pid, child_exited,
                    child_exit_status, childPc, c_child_pid, childOutcome,
                    childTty, log_count, logged_status >>

(***************************************************************************)
(* The signal handlers.  A handler runs to its end between two steps of    *)
(* main; a handler that runs while main sleeps in pause() makes pause()    *)
(* return.                                                                 *)
(***************************************************************************)
Wake(at) == IF at = "paused" THEN "check" ELSE at

\* the wait status of an orphan (it exits with 1)
OrphanStatus == StatusOfExit(1)

\* the terminated, unreaped children of PID 1 as <<pid, status>>
Zombies ==
    (IF childPc = "zombie" THEN {<<ChildOsPid, WaitStatus(childOutcome)>>}
     ELSE {})
    \cup { <<OrphanPid(i), OrphanStatus>> :
             i \in {j \in Orphans : orphans[j] = "zombie"} }

\* RecordReaped with the signal number recorded without the 128 offset
RecordReaped_NoOffset(cs, pid, status) ==
    IF pid = cs.pid
    THEN [cs EXCEPT !.exited = 1,
                    !.status = IF WIFEXITED(status) THEN WEXITSTATUS(status)
                               ELSE IF WIFSIGNALED(status)
                                    THEN WTERMSIG(status)
                               ELSE cs.status]
    ELSE cs

\* the body of the while loop of sigchld_handler for one reaped pid;
\* cs is [pid, exited, status], the three globals
RecordReaped(cs, pid, status) ==
    IF pid = cs.pid
    THEN [cs EXCEPT !.exited = 1,
                    !.status = IF WIFEXITED(status) THEN WEXITSTATUS(status)
                               ELSE IF WIFSIGNALED(status)
                                    THEN 128 + WTERMSIG(status)
                               ELSE cs.status]
    ELSE cs

\* SigchldLoop with an if in place of the while: one waitpid call
SigchldLoop_Once(cs, zs) ==
    IF zs = {} THEN [cs |-> cs, left |-> zs]
    ELSE LET z == CHOOSE x \in zs : TRUE
         IN [cs |-> RecordReaped(cs, z[1], z[2]), left |-> zs \ {z}]

\* while ((pid = waitpid(-1, &status, WNOHANG)) > 0) ...: each call returns
\* one of the zombies zs, in the order the kernel picks, until none is
\* left and waitpid returns 0 or -1; left is the zombies not reaped
RECURSIVE SigchldLoop(_, _)
SigchldLoop(cs, zs) ==
    IF zs = {} THEN [cs |-> cs, left |-> zs]
    ELSE LET z == CHOOSE x \in zs : TRUE
         IN SigchldLoop(RecordReaped(cs, z[1], z[2]), zs \ {z})

\* the pids of a set of zombies
Pids(zs) == { z[1] : z \in zs }

\* sigchld_handler runs in the supervisor
SigchldHandler ==
    /\ handlers
    /\ pc # "exited"
    /\ sigchld_pending
    /\ LET r == SigchldLoop([pid |-> child_pid, exited |-> child_exited,
                             status |-> child_exit_status], Zombies)
           reaped == Pids(Zombies) \ Pids(r.left)
       IN /\ child_exited' = r.cs.exited
          /\ child_exit_status' = r.cs.status
          /\ childPc' = IF ChildOsPid \in reaped THEN "reaped" ELSE childPc
          /\ orphans' = [i \in Orphans |->
                           IF OrphanPid(i) \in reaped THEN "absent"
                           ELSE orphans[i]]
          /\ obs' = [sig |-> "SIGCHLD", by |-> "parent", kill |-> <<>>,
                     reaped |-> reaped]
    /\ sigchld_pending' = FALSE
    /\ pc' = Wake(pc)
    /\ UNCHANGED << exit_status, raw, bufsize, max_args, entrypoint, ep_log, ep_argc,
                    ep_argv, console_rc, console_device, fs, tried, handlers,
                    fork_ret, child_pid, c_child_pid, childOutcome, childTty,
                    log_count, logged_status >>

\* ForwardSignal without the test child_pid > 0
ForwardSignal_NoGuard(cpid, sig) == <<cpid, sig>>

\* forward_signal(sig) in a process whose child_pid is cpid: the kill() it
\* issues as <<pid, sig>>, <<>> for none
ForwardSignal(cpid, sig) == IF cpid > 0 THEN <<cpid, sig>> ELSE <<>>

\* SIGTERM, SIGINT or SIGHUP is delivered to the supervisor
ParentSignal ==
    /\ handlers
    /\ pc # "exited"
    /\ \E sig \in ForwardedSignals :
         obs' = [sig |-> sig, by |-> "parent",
                 kill |-> ForwardSignal(child_pid, sig), reaped |-> {}]
    /\ pc' = Wake(pc)
    /\ UNCHANGED << exit_status, raw, bufsize, max_args, entrypoint, ep_log, ep_argc,
                    ep_argv, console_rc, console_device, fs, tried, handlers,
                    fork_ret, child_pid, child_exited, child_exit_status,
                    childPc, c_child_pid, childOutcome, childTty, orphans,
                    sigchld_pending, log_count, logged_status >>

\* SIGTERM, SIGINT or SIGHUP is delivered to the child before its execv,
\* where the handlers inherited over fork() are still installed
ChildSignal ==
    /\ childPc \in {"fork_ret", "main", "exec"}
    /\ \E sig \in ForwardedSignals :
         obs' = [sig |-> sig, by |-> "child",
                 kill |-> ForwardSignal(c_child_pid, sig), reaped |-> {}]
    /\ UNCHANGED << pc, exit_status, raw, bufsize, max_args, entrypoint, ep_log,
                    ep_argc, ep_argv, console_rc, console_device, fs, tried,
                    handlers, fork_ret, child_pid, child_exited,
                    child_exit_status, childPc, c_child_pid, childOutcome,
                    childTty, orphans, sigchld_pending, log_count,
                    logged_status >>

(***************************************************************************)
(* The supervisor and its environment.                                     *)
(***************************************************************************)
MainStep ==
    \/ MainMount
    \/ MainReadEntrypoint
    \/ MainReadConsole
    \/ MainParseArgs
    \/ MainSetupSignals
    \/ MainFork
    \/ MainStoreChildPid
    \/ MainPause
    \/ MainCheck
    \/ MainLog
    \/ MainReset

Next ==
    \/ MainStep
    \/ ChildStoreChildPid
    \/ ChildConsole
    \/ ChildExec
    \/ ChildExit
    \/ ChildKilled
    \/ OrphanAppears
    \/ OrphanDies
    \/ SigchldHandler
    \/ ParentSignal
    \/ ChildSignal

Spec == Init /\ [][Next]_vars

\* the steps of the parent from the return of fork() on
ParentStep ==
    \/ MainStoreChildPid
    \/ MainPause
    \/ MainCheck
    \/ MainLog
    \/ MainReset

\* the parent is scheduled, and a pending SIGCHLD is delivered; nothing
\* makes the entrypoint end or anyone send the supervisor a signal
FairSpec ==
    Init /\ [][Next]_vars /\ WF_vars(ParentStep) /\ WF_vars(SigchldHandler)

(***************************************************************************)
(* The reader and the tokenizer applied on their own, to every command     *)
(* line of ParseCmdlines, with the caller's buffer size and token limit    *)
(* drawn from small sets as well as the ones main passes.                  *)
(***************************************************************************)
BufSizes == {SmallBuf, MAX_ENTRYPOINT_LEN}
ArgLimits == {SmallArgs, MAX_ARGS}

InitParse ==
    /\ pc = "fn_read_entrypoint"
    /\ raw \in ParseCmdlines
    /\ fs = [mounted |-> {}, dirs |-> {}]
    /\ bufsize \in BufSizes
    /\ max_args \in ArgLimits
    /\ InitCommon

\* read_entrypoint(entrypoint, bufsize)
FnReadEntrypoint ==
    /\ pc = "fn_read_entrypoint"
    /\ \E io \in {"ok", "open_fails", "read_fails"} :
         LET r == ReadEntrypoint(io, raw, entrypoint, bufsize)
         IN /\ entrypoint' = r.buf
            /\ ep_log' = r.log
            /\ pc' = IF r.rc < 0 THEN "fn_failed" ELSE "fn_parse_args"
    /\ UNCHANGED << exit_status, raw, bufsize, max_args, ep_argc, ep_argv,
                    console_rc, console_device, fs, tried, handlers, fork_ret,
                    child_pid, child_exited, child_exit_status, childPc,
                    c_child_pid, childOutcome, childTty, orphans,
                    sigchld_pending, obs, log_count, logged_status >>

\* parse_args(entrypoint, ep_argv, max_args)
FnParseArgs ==
    /\ pc = "fn_parse_args"
    /\ LET r == ParseArgs(entrypoint, max_args)
       IN /\ entrypoint' = r.buf
          /\ ep_argc' = r.rc
          /\ ep_argv' = r.argv
    /\ pc' = "fn_done"
    /\ UNCHANGED << exit_status, raw, bufsize, max_args, ep_log, console_rc,
                    console_device, fs, tried, handlers, fork_ret, child_pid,
                    child_exited, child_exit_status, childPc, c_child_pid,
                    childOutcome, childTty, orphans, sigchld_pending, obs,
                    log_count, logged_status >>

NextParse ==
    \/ FnReadEntrypoint
    \/ FnParseArgs

ParseSpec == InitParse /\ [][NextParse]_vars

(***************************************************************************)
(* read_console applied on its own, with the buffer size main passes and a *)
(* small one.                                                              *)
(***************************************************************************)
ConsoleAlphabet == {"t", SP, ",", NL}

\* console=ttyS0,115200
ExampleConsole ==
    CONSOLE_KEY \o <<"t", "t", "y", "S", "0", ",", "1", "1", "5", "2", "0", "0">>

\* n times the byte c
Rep(c, n) == [i \in 1..n |-> c]

\* the lengths of a value around the longest one that fits in
\* console_device[] behind "/dev/"
LongValueLens ==
    (MAX_CONSOLE_LEN - Len(DEV_PREFIX) - 2)..(MAX_CONSOLE_LEN - Len(DEV_PREFIX) + 1)

ConsoleCmdlines ==
    { CONSOLE_KEY \o tail : tail \in Strs(ConsoleAlphabet, MaxTail) }
    \cup { pre \o tail :
             pre \in {<<>>, SubSeq(CONSOLE_KEY, 1, 7),
                      SubSeq(CONSOLE_KEY, 2, 8)},
             tail \in Strs(ConsoleAlphabet, 1) }
    \cup { <<"x">> \o CONSOLE_KEY \o tail \o <<SP>> \o CONSOLE_KEY \o <<"u">> :
             tail \in Strs(ConsoleAlphabet, 1) }
    \cup { CONSOLE_KEY \o Rep("t", n) \o end :
             n \in LongValueLens, end \in {<<>>, <<",", "1">>, <<NL>>} }
    \cup { ENTRYPOINT_KEY \o <<"a", SP>> \o ExampleConsole \o <<NL>>,
           ExampleConsole }

ConsoleBufSizes == {SmallConsoleBuf, MAX_CONSOLE_LEN}

InitConsole ==
    /\ pc = "fn_read_console"
    /\ raw \in ConsoleCmdlines
    /\ fs = [mounted |-> {}, dirs |-> {}]
    /\ bufsize \in ConsoleBufSizes
    /\ max_args = MAX_ARGS
    /\ InitCommon

\* read_console(console_device, bufsize); "fn_console_unread" says that
\* /proc/cmdline could not be opened or read
FnReadConsole ==
    /\ pc = "fn_read_console"
    /\ \E io \in {"ok", "open_fails", "read_fails"} :
         LET r == ReadConsole(io, raw, console_device, bufsize)
         IN /\ console_rc' = r.rc
            /\ console_device' = r.buf
            /\ pc' = IF io = "ok" THEN "fn_console_done"
                     ELSE "fn_console_unread"
    /\ UNCHANGED << exit_status, raw, bufsize, max_args, entrypoint, ep_log,
                    ep_argc, ep_argv, fs, tried, handlers, fork_ret,
                    child_pid, child_exited, child_exit_status, childPc,
                    c_child_pid, childOutcome, childTty, orphans,
                    sigchld_pending, obs, log_count, logged_status >>

ConsoleSpec == InitConsole /\ [][FnReadConsole]_vars

(***************************************************************************)
(* mount_filesystems applied on its own, and applied again at once when it *)
(* has succeeded.                                                          *)
(***************************************************************************)
MountTargets == { MountSteps[i].path : i \in {j \in 1..Len(MountSteps) : MountSteps[j].op = "mount"} }
MkdirPaths == { MountSteps[i].path : i \in {j \in 1..Len(MountSteps) : MountSteps[j].op = "mkdir"} }

\* what may be mounted and exist when init starts; a mounted target exists
FsStates ==
    { f \in [mounted : SUBSET MountTargets, dirs : SUBSET MkdirPaths] :
        \A t \in f.mounted : t \in MkdirPaths => t \in f.dirs }

\* no system call is made to fail: the kernel answers from fs
NoInjection == [i \in 1..Len(MountSteps) |-> "ok"]

InitMount ==
    /\ pc = "fn_mount"
    /\ raw = <<>>
    /\ fs \in FsStates
    /\ bufsize = MAX_ENTRYPOINT_LEN
    /\ max_args = MAX_ARGS
    /\ InitCommon

\* mount_filesystems()
FnMount ==
    /\ pc = "fn_mount"
    /\ \E inj \in Injections :
         LET r == MountFilesystems(fs, inj)
         IN /\ fs' = r.fs
            /\ tried' = r.tried
            /\ pc' = IF r.rc < 0 THEN "fn_mount_failed" ELSE "fn_mount_again"
    /\ UNCHANGED << exit_status, raw, bufsize, max_args, entrypoint, ep_log,
                    ep_argc, ep_argv, console_rc, console_device, handlers,
                    fork_ret, child_pid, child_exited, child_exit_status,
                    childPc, c_child_pid, childOutcome, childTty, orphans,
                    sigchld_pending, obs, log_count, logged_status >>

\* mount_filesystems() called again immediately after it has succeeded:
\* nothing has been unmounted or removed in between
FnMountAgain ==
    /\ pc = "fn_mount_again"
    /\ LET r == MountFilesystems(fs, NoInjection)
       IN /\ fs' = r.fs
          /\ tried' = r.tried
          /\ pc' = IF r.rc < 0 THEN "fn_mount_again_failed"
                   ELSE "fn_mounted_twice"
    /\ UNCHANGED << exit_status, raw, bufsize, max_args, entrypoint, ep_log,
                    ep_argc, ep_argv, console_rc, console_device, handlers,
                    fork_ret, child_pid, child_exited, child_exit_status,
                    childPc, c_child_pid, childOutcome, childTty, orphans,
                    sigchld_pending, obs, log_count, logged_status >>

NextMount ==
    \/ FnMount
    \/ FnMountAgain

MountSpec == InitMount /\ [][NextMount]_vars

(***************************************************************************)
(* parse_args applied on its own to any string, not only to the values     *)
(* read_entrypoint extracts; raw is the string as it is handed over.       *)
(***************************************************************************)
TokenInputs == Strs(TailAlphabet, MaxTail)

InitToken ==
    /\ pc = "fn_tokenize"
    /\ raw \in TokenInputs
    /\ fs = [mounted |-> {}, dirs |-> {}]
    /\ bufsize = MAX_ENTRYPOINT_LEN
    /\ max_args \in ArgLimits
    /\ InitCommon

\* strcpy(entrypoint, raw); parse_args(entrypoint, ep_argv, max_args)
FnTokenize ==
    /\ pc = "fn_tokenize"
    /\ LET r == ParseArgs(raw \o <<NUL>>, max_args)
       IN /\ entrypoint' = r.buf
          /\ ep_argc' = r.rc
          /\ ep_argv' = r.argv
    /\ pc' = "fn_tokenized"
    /\ UNCHANGED << exit_status, raw, bufsize, max_args, ep_log, console_rc,
                    console_device, fs, tried, handlers, fork_ret, child_pid,
                    child_exited, child_exit_status, childPc, c_child_pid,
                    childOutcome, childTty, orphans, sigchld_pending, obs,
                    log_count, logged_status >>

TokenSpec == InitToken /\ [][FnTokenize]_vars

(***************************************************************************)
(* Properties.                                                             *)
(***************************************************************************)
\* fork() has succeeded
Forked == childPc # "none"
\* the child process exists: created by fork and not yet terminated
ChildAlive == childPc \in {"fork_ret", "main", "exec", "running"}
\* the statements of the parent from the return of fork() on
ParentLoop == {"fork_ret", "call_pause", "paused", "check", "log", "reset"}

\* C1: the supervisor terminates only before a successful fork and only
\* with exit status 1; once fork() has succeeded the parent is in the
\* pause() loop (or on its way into it) and has not exited.
C1_ExitsOnlyBeforeFork ==
    /\ pc = "exited" => exit_status = 1 /\ ~Forked
    /\ pc # "exited" => exit_status = -1
    /\ Forked => pc \in ParentLoop

\* the child has gone, its exit was logged, and the parent is back asleep
\* in pause()
C1_Witness ==
    /\ childPc = "reaped"
    /\ log_count = 1
    /\ pc = "paused"

\* C2: a SIGCHLD for the entrypoint child delivered at any point after
\* fork() has created it is observed: once the child is reaped, its exit
\* is recorded in child_exited (or was, and has been consumed by the loop).
C2_SigchldObserved ==
    childPc = "reaped" => child_exited = 1 \/ log_count > 0

\* the child's termination outcome under the 0-255 / 128+signal / 127
\* convention
TrueOutcome ==
    CASE childOutcome.how = "exit" -> childOutcome.n
      [] childOutcome.how = "signal" -> 128 + childOutcome.n
      [] childOutcome.how = "execfail" -> 127
      [] OTHER -> -1

\* C3: whenever child_exited is set, child_exit_status is the child's
\* true termination outcome (exit code, 128 + signal number, 127 for a
\* failed execv) and lies in 0..255.
C3_StatusIsOutcome ==
    child_exited = 1 =>
        /\ childPc = "reaped"
        /\ child_exit_status = TrueOutcome
        /\ child_exit_status \in 0..255

\* the exit of a child killed by a signal with a core dump is recorded
C3_Witness ==
    /\ child_exited = 1
    /\ childOutcome.how = "signal"
    /\ childOutcome.core

\* C4: after the child terminates, the main loop eventually logs its exit
\* status, exactly once, and resets child_exited, with no further signal
\* needed after the child's SIGCHLD.  Stated from the moment the handler
\* has recorded the exit, so that it does not rest on the exit being
\* recorded at all (C2).
C4_ExitEventuallyLogged ==
    (child_exited = 1) ~> (log_count = 1 /\ child_exited = 0)

\* a forwarded signal was handled by the supervisor in the last step
Relayed == obs.by = "parent" /\ obs.sig \in ForwardedSignals

\* C5: every SIGTERM, SIGINT or SIGHUP delivered to the supervisor while
\* the child exists makes the handler send that same signal to the child's
\* pid.
C5_SignalRelayed ==
    Relayed /\ ChildAlive => obs.kill = <<ChildOsPid, obs.sig>>

\* C6: when SIGTERM, SIGINT or SIGHUP is delivered while no child exists
\* (none forked yet, or the child terminated and reaped), forward_signal
\* issues no kill() at all.
C6_NoKillWithoutChild ==
    Relayed /\ childPc \in {"none", "reaped"} => obs.kill = <<>>

\* mount_filesystems has run and returned -1
MountFailed == tried # <<>> /\ tried[Len(tried)].rc < 0
\* read_entrypoint has run and returned -1
ReadEntrypointFailed == ep_log # "none"
\* parse_args has run and returned 0
NoTokens == ep_argv # <<>> /\ ep_argc = 0

\* C7: when mount_filesystems fails, read_entrypoint fails or parse_args
\* yields no token, main has returned 1 and fork() was never called; when
\* fork() fails no child exists and main returns 1 as its next step.
C7_FatalBeforeFork ==
    /\ MountFailed \/ ReadEntrypointFailed \/ NoTokens =>
          /\ pc = "exited"
          /\ exit_status = 1
          /\ fork_ret = 0
          /\ ~Forked
    /\ fork_ret < 0 =>
          /\ ~Forked
          /\ pc = "fork_ret" \/ (pc = "exited" /\ exit_status = 1)

\* a quoted value of one space was read and tokenized to nothing, and main
\* has returned
C7_Witness ==
    /\ NoTokens
    /\ ~ReadEntrypointFailed
    /\ pc = "exited"

\* C8: a failed read_console leaves no console configured, does not end
\* the boot and setup_console is never called; a failed open of the
\* console leaves the child's standard streams as inherited; and whatever
\* the system calls of setup_console answer, the step that runs it leaves
\* the child at execv.
C8_ConsoleNeverFatal ==
    /\ [](console_rc = -1 =>
            /\ console_device[1] = NUL
            /\ ~childTty.called
            /\ pc = "exited" => NoTokens \/ fork_ret < 0)
    /\ [](childTty.called => console_rc = 0)
    /\ [](childTty.called /\ ~childTty.opened =>
            childTty.stdio = InheritedTty.stdio)
    /\ [][childTty' # childTty => childPc = "main" /\ childPc' = "exec"]_vars

\* the console could not be opened and the entrypoint runs all the same
C8_Witness ==
    /\ childTty.called
    /\ ~childTty.opened
    /\ childPc = "running"

(***************************************************************************)
(* The reference rules of the reader and the tokenizer, on strings as      *)
(* lists, with no buffer and no positions.                                 *)
(***************************************************************************)
Drop(s, n) == SubSeq(s, n + 1, Len(s))

\* the text after the first occurrence of key in s, as <<text>>;
\* <<>> if key does not occur
RECURSIVE AfterFirst(_, _)
AfterFirst(s, key) ==
    IF Len(s) < Len(key) THEN <<>>
    ELSE IF SubSeq(s, 1, Len(key)) = key THEN <<Drop(s, Len(key))>>
    ELSE AfterFirst(Tail(s), key)

\* the longest prefix of s with no byte of stops
RECURSIVE UpTo(_, _)
UpTo(s, stops) ==
    IF s = <<>> \/ Head(s) \in stops THEN <<>>
    ELSE <<Head(s)>> \o UpTo(Tail(s), stops)

Has(s, c) == \E i \in 1..Len(s) : s[i] = c

\* how read_entrypoint is to answer for the command line s and a buffer of
\* size bytes: the failure, or "Ok" with the value
RefEntrypoint(s, size) ==
    LET after == AfterFirst(s, ENTRYPOINT_KEY)
        rest  == after[1]
        quoted == rest # <<>> /\ Head(rest) = DQ
        value == IF quoted THEN UpTo(Tail(rest), {DQ}) ELSE UpTo(rest, {SP, NL})
    IN  IF after = <<>> THEN [res |-> "NotFound", value |-> <<>>]
        ELSE IF quoted /\ ~Has(Tail(rest), DQ)
             THEN [res |-> "Malformed", value |-> <<>>]
        ELSE IF Len(value) = 0 THEN [res |-> "Empty", value |-> <<>>]
        ELSE IF Len(value) >= size THEN [res |-> "TooLong", value |-> <<>>]
        ELSE [res |-> "Ok", value |-> value]

\* the tokens of s: q is the open quote ("" outside quotes), cur the token
\* being read, open whether one is being read, acc the tokens read
RECURSIVE RefLex(_, _, _, _, _)
RefLex(s, q, cur, open, acc) ==
    IF s = <<>> THEN (IF open THEN Append(acc, cur) ELSE acc)
    ELSE LET c == Head(s)
         IN  IF q = "" /\ c \in {DQ, SQ} THEN RefLex(Tail(s), c, cur, TRUE, acc)
             ELSE IF q = "" /\ c \in {SP, TAB}
                  THEN RefLex(Tail(s), "", <<>>, FALSE,
                              IF open THEN Append(acc, cur) ELSE acc)
             ELSE IF q # "" /\ c = q THEN RefLex(Tail(s), "", cur, TRUE, acc)
             ELSE RefLex(Tail(s), q, Append(cur, c), TRUE, acc)

\* tokenize(s, max_tokens): at most max_tokens - 1 tokens
RefTokenize(s, max_tokens) ==
    LET all == RefLex(s, "", <<>>, FALSE, <<>>)
    IN SubSeq(all, 1, IF Len(all) < max_tokens - 1 THEN Len(all)
                      ELSE max_tokens - 1)

\* read_entrypoint and parse_args have both been applied
Tokenized == pc = "fn_done"
\* the tokens parse_args produced
ArgvTokens == ArgStrings(entrypoint, ep_argv)

\* C9: for every command line the value read_entrypoint extracts and
\* parse_args then splits gives the tokens of the reference rule: outer
\* double quotes stripped by the reader only, split on runs of space and
\* tab outside quotes, quote characters removed, whitespace inside quotes
\* kept; and the three examples give the token lists stated.
C9_TwoStageParsing ==
    Tokenized =>
        /\ ArgvTokens = RefTokenize(RefEntrypoint(raw, bufsize).value, max_args)
        /\ ep_argc = Len(ArgvTokens)
        /\ raw = Example1 /\ max_args = MAX_ARGS =>
              ArgvTokens = << <<"a">>, <<"b">>, <<"c">> >>
        /\ raw = Example2 /\ max_args = MAX_ARGS =>
              ArgvTokens = << <<"/", "b", "i", "n", "/", "s", "h">> >>
        /\ raw = Example3 /\ max_args = MAX_ARGS =>
              ArgvTokens = << <<"/", "b", "i", "n", "/", "s", "h">>,
                              <<"-", "c">>,
                              <<"e", "c", "h", "o", SP, "h", "i">> >>

\* kerf.entrypoint="/bin/sh -c 'echo hi'" has been read and tokenized
C9_Witness ==
    /\ Tokenized
    /\ raw = Example3
    /\ max_args = MAX_ARGS
    /\ ep_argc = 3

\* read_entrypoint has been applied
ReadDone == pc \in {"fn_failed", "fn_parse_args"}
\* ... and /proc/cmdline could be opened and read
CmdlineRead == ReadDone /\ ep_log \notin {"open", "read"}

\* C10: over the command line read, read_entrypoint fails exactly when the
\* marker is absent, a quoted value is not closed, the value is empty or
\* its length is >= bufsize, with the matching diagnostic; when it fails
\* the buffer is as it was, and otherwise it holds the value and a NUL.
C10_ReadEntrypointCases ==
    /\ CmdlineRead =>
         LET ref == RefEntrypoint(raw, bufsize)
         IN /\ (pc = "fn_failed") = (ref.res # "Ok")
            /\ (ep_log = "not found") = (ref.res = "NotFound")
            /\ (ep_log = "unterminated quote") = (ref.res = "Malformed")
            /\ (ep_log = "empty") = (ref.res = "Empty")
            /\ (ep_log = "too long") = (ref.res = "TooLong")
            /\ (ep_log = "none") = (ref.res = "Ok")
            /\ pc = "fn_parse_args" => entrypoint = ref.value \o <<NUL>>
    /\ pc = "fn_failed" => entrypoint = Unwritten

\* a value that does not fit the caller's buffer was refused
C10_Witness ==
    /\ pc = "fn_failed"
    /\ ep_log = "too long"
    /\ entrypoint = Unwritten

(***************************************************************************)
(* The reference rule of the console parameter.                            *)
(***************************************************************************)
\* how read_console is to answer for the command line s and a buffer of
\* size bytes: the failure, or "Ok" with the device path
RefConsole(s, size) ==
    LET after == AfterFirst(s, CONSOLE_KEY)
        value == UpTo(after[1], {SP, ",", NL})
        path  == DEV_PREFIX \o value
    IN  IF after = <<>> THEN [res |-> "NotFound", path |-> <<>>]
        ELSE IF value = <<>> THEN [res |-> "Empty", path |-> <<>>]
        ELSE IF Len(path) + 1 > size THEN [res |-> "TooLong", path |-> <<>>]
        ELSE [res |-> "Ok", path |-> path]

\* C11: over the command line read, read_console succeeds exactly when the
\* console= marker is present, the text after its first occurrence up to
\* the first space, comma or newline is not empty and "/dev/" followed by
\* that text fits the buffer with its NUL; it then writes that path whole,
\* and otherwise returns -1 and leaves the buffer alone;
\* console=ttyS0,115200 gives /dev/ttyS0.
C11_ConsoleDevice ==
    /\ pc = "fn_console_done" =>
         LET ref == RefConsole(raw, bufsize)
         IN /\ console_rc \in {0, -1}
            /\ (console_rc = 0) = (ref.res = "Ok")
            /\ console_rc = 0 => console_device = ref.path \o <<NUL>>
            /\ console_rc = -1 => console_device = <<NUL>>
            /\ raw = ExampleConsole /\ bufsize = MAX_CONSOLE_LEN =>
                  console_device =
                    <<"/", "d", "e", "v", "/", "t", "t", "y", "S", "0", NUL>>
    /\ pc = "fn_console_unread" =>
         console_rc = -1 /\ console_device = <<NUL>>

\* console=ttyS0,115200 was resolved in main's 64-byte buffer
C11_Witness ==
    /\ pc = "fn_console_done"
    /\ raw = ExampleConsole
    /\ bufsize = MAX_CONSOLE_LEN
    /\ console_rc = 0

\* every step attempted answered "already mounted" / "already exists"
AllAlready(t) ==
    \A k \in 1..Len(t) : t[k].errno \in {"EBUSY", "EEXIST"}

\* C12: when mount_filesystems has succeeded and is called again at once,
\* every mount answers EBUSY and the mkdir EEXIST, the second call returns
\* success after all five steps and the mounted filesystems and the
\* directories are what they were.
C12_MountIdempotent ==
    /\ [][pc = "fn_mount_again" =>
            /\ pc' = "fn_mounted_twice"
            /\ fs' = fs
            /\ Len(tried') = Len(MountSteps)
            /\ AllAlready(tried')]_vars
    /\ [](pc = "fn_mounted_twice" =>
            /\ \A k \in 1..Len(tried) : tried[k].rc = 0
            /\ fs.mounted = MountTargets
            /\ fs.dirs = MkdirPaths)

\* the second call has returned success
C12_Witness ==
    /\ pc = "fn_mounted_twice"
    /\ Len(tried) = Len(MountSteps)
    /\ AllAlready(tried)

\* ChildState: the three globals
ChildState == << child_pid, child_exited, child_exit_status >>

\* C13: fork() is called at most once; child_pid changes only from -1 to
\* the pid of the child and never again; child_exited rises from 0 to 1
\* only when the terminated child is reaped, and does rise when it is.
C13_ChildStateLifecycle ==
    /\ [][pc = "fork" /\ pc' # pc => fork_ret = 0 /\ ~Forked]_vars
    /\ [][pc' = "fork" => pc \in {"setup_signals", "fork"}]_vars
    /\ [][child_pid' # child_pid =>
            child_pid = -1 /\ child_pid' = ChildOsPid]_vars
    /\ [][child_exited = 0 /\ child_exited' = 1 =>
            childPc = "zombie" /\ childPc' = "reaped"]_vars
    /\ [][childPc = "zombie" /\ childPc' = "reaped" =>
            child_exited = 0 /\ child_exited' = 1]_vars

\* C14: when sigchld_handler returns, every process that was a zombie when
\* it started has been reaped, the child and orphans alike, also when
\* their terminations share one SIGCHLD; and if the recorded child pid is
\* not among the pids reaped, child_pid, child_exited and
\* child_exit_status are what they were.
C14_HandlerDrains ==
    /\ [][SigchldHandler =>
            /\ obs'.reaped = Pids(Zombies)
            /\ Pids(Zombies)' \cap Pids(Zombies) = {}
            /\ childPc' # "zombie"
            /\ \A i \in Orphans : orphans'[i] # "zombie"]_vars
    /\ [][SigchldHandler /\ child_pid \notin obs'.reaped =>
            UNCHANGED ChildState]_vars

\* one run of the handler has reaped the child and an orphan, and has
\* recorded the exit of the child only
C14_Witness ==
    /\ obs.sig = "SIGCHLD"
    /\ obs.reaped = {ChildOsPid, OrphanPid(1)}
    /\ child_exited = 1
    /\ child_exit_status = TrueOutcome

\* C15, as stated: no step of main changes child_pid, child_exited or
\* child_exit_status.
C15_MainNeverWrites ==
    [][MainStep => UNCHANGED ChildState]_vars

\* C15, amended: child_exit_status is written by sigchld_handler only;
\* child_pid is written by main only, when it stores the value fork()
\* returned; child_exited is set by sigchld_handler and cleared by main,
\* in the loop, after the exit has been logged; forward_signal writes
\* nothing.
C15_WhoWritesChildState ==
    /\ [][child_exit_status' # child_exit_status => SigchldHandler]_vars
    /\ [][child_pid' # child_pid =>
            MainStoreChildPid /\ child_pid' = fork_ret]_vars
    /\ [][child_exited' # child_exited =>
            \/ SigchldHandler /\ child_exited' = 1
            \/ MainReset /\ child_exited = 1 /\ child_exited' = 0]_vars
    /\ [][MainStep /\ ~MainStoreChildPid /\ ~MainReset =>
            UNCHANGED ChildState]_vars

\* main has stored the child's pid, the handler has recorded the exit and
\* main has logged it and cleared the flag
C15_Witness ==
    /\ child_pid = ChildOsPid
    /\ child_exit_status = 255
    /\ child_exited = 0
    /\ log_count = 1
    /\ pc = "call_pause"

\* C16: once fork() has been reached there is at least one token and the
\* first one, the path handed to execv, is not the empty string.
C16_FirstTokenUsable ==
    pc \in {"fork"} \cup ParentLoop \/ Forked =>
        /\ ep_argc >= 1
        /\ ep_argv[1] # 0
        /\ CStr(entrypoint, ep_argv[1]) # <<>>

\* all the tokens of the string handed to parse_args
AllTokens == RefLex(raw, "", <<>>, FALSE, <<>>)

\* C17: parse_args returns a count c in 0 .. max_args - 1, the smaller of
\* max_args - 1 and the number of tokens of the input; it writes the slots
\* argv[0..c] and no other, argv[0..c-1] pointing at the first c tokens in
\* order and argv[c] being NULL; and c = 0 exactly when every byte of the
\* input is a space or a tab.
C17_TokenCount ==
    pc = "fn_tokenized" =>
        /\ ep_argc \in 0..(max_args - 1)
        /\ ep_argc = IF Len(AllTokens) < max_args - 1 THEN Len(AllTokens)
                     ELSE max_args - 1
        /\ Len(ep_argv) = ep_argc + 1
        /\ Len(ep_argv) <= max_args
        /\ ep_argv[ep_argc + 1] = 0
        /\ \A i \in 1..ep_argc : ep_argv[i] \in 1..Len(entrypoint)
        /\ ArgvTokens = SubSeq(AllTokens, 1, ep_argc)
        /\ (ep_argc = 0) = (\A i \in 1..Len(raw) : raw[i] \in {SP, TAB})

\* an input of more tokens than the limit allows was cut at the limit
C17_Witness ==
    /\ pc = "fn_tokenized"
    /\ max_args = SmallArgs
    /\ ep_argc = SmallArgs - 1
    /\ Len(AllTokens) > ep_argc

\* the system call of a step succeeded or failed with the errno the step
\* tolerates
Tolerated(step, errno) ==
    \/ errno = "ok"
    \/ step.op = "mount" /\ errno = "EBUSY"
    \/ step.op = "mkdir" /\ errno = "EEXIST"

\* C18: the steps attempted are the first steps of MountSteps in order; a
\* step returned 0 exactly when its call succeeded or failed with EBUSY
\* (mount) / EEXIST (mkdir); nothing is attempted after a step that
\* failed, and all five are attempted otherwise; after a failed step main
\* has returned 1 with /proc/cmdline not yet read.
C18_MountOrderAndAbort ==
    LET n == Len(tried)
    IN  /\ n <= Len(MountSteps)
        /\ \A k \in 1..n :
              /\ tried[k].path = MountSteps[k].path
              /\ tried[k].rc = IF Tolerated(MountSteps[k], tried[k].errno)
                               THEN 0 ELSE -1
              /\ k < n => tried[k].rc = 0
        /\ pc # "mount" => n >= 1
        /\ n >= 1 /\ tried[n].rc = 0 => n = Len(MountSteps)
        /\ MountFailed =>
              /\ pc = "exited"
              /\ exit_status = 1
              /\ entrypoint = Unwritten
              /\ ep_log = "none"
              /\ console_rc = 1
              /\ ~Forked

\* /dev was mounted already, which is tolerated, and mkdir /dev/pts then
\* failed with EBUSY, which is not: init has exited and never tried to
\* mount /dev/pts
C18_Witness ==
    /\ pc = "exited"
    /\ Len(tried) = 4
    /\ tried[3].errno = "EBUSY"
    /\ tried[3].rc = 0
    /\ tried[4].errno = "EBUSY"
    /\ tried[4].rc = -1

\* C19: a SIGTERM, SIGINT or SIGHUP handled in the child between fork()
\* and execv issues no kill(), whether the child's copy of child_pid is
\* still the -1 it was forked with or the 0 fork() returned.
C19_ChildNeverRelays ==
    /\ obs.by = "child" =>
          /\ obs.sig \in ForwardedSignals
          /\ obs.kill = <<>>
          /\ c_child_pid \in {-1, 0}
    /\ ChildAlive /\ childPc # "running" => c_child_pid \in {-1, 0}

\* the child has handled SIGTERM before it stored fork()'s return value
C19_Witness ==
    /\ obs.by = "child"
    /\ obs.sig = "SIGTERM"
    /\ c_child_pid = -1
    /\ childPc = "fork_ret"

====
